---- MODULE Spec2Model ----
(***************************************************************************)
(* fms::lmm - two-factor LIBOR market model (fms_lmm.h).                   *)
(*                                                                         *)
(* The curve is the caller's three parallel arrays t, f (rates) and sigma  *)
(* plus the caller's three pointers into them and the count n.  The five   *)
(* functions of the header are the operations; every operation is one      *)
(* action that applies the whole function.                                 *)
(*                                                                         *)
(* Numbers.  The template parameters T, F, S are floating types            *)
(* (std::normal_distribution<T> requires one).  They are modelled by one   *)
(* small binary floating-point format: a number is the integer m standing  *)
(* for m / Scale, it carries at most Prec significant bits, and every      *)
(* arithmetic operation returns the exact result rounded to the nearest    *)
(* such number, ties to even (IEEE 754 round-to-nearest with gradual       *)
(* underflow; 1/Scale is the smallest positive number).  The exponent      *)
(* range is unbounded above: overflow to infinity is not modelled, and     *)
(* the inputs are kept in the range where it cannot occur.  exp, cos and   *)
(* sin are the correctly rounded library functions, given by their tables. *)
(***************************************************************************)
EXTENDS Integers, Sequences, FiniteSets, TLC

\* ------------------------------------------------------------ bounds
MaxN == 3
MaxOps == 2

\* ------------------------------------------------------------ numbers
\* The format standing for the template types T, F and S.
Scale == 16
Prec == 5

One == Scale

Abs(x) == IF x < 0 THEN -x ELSE x

Sgn(x) == IF x < 0 THEN -1 ELSE 1

RECURSIVE Pow2(_)
Pow2(k) == IF k = 0 THEN 1 ELSE 2 * Pow2(k - 1)

\* The smallest magnitude that no longer fits Prec bits on the grid.
TwoPrec == Pow2(Prec)

RECURSIVE Spacing(_)
Spacing(y) == IF y = 0 THEN 1 ELSE 2 * Spacing(y \div 2)

\* The spacing of the format's numbers at magnitude x (x >= 0, in grid
\* units): 1 below 2^Prec, doubling with every further bit.
Quantum(x) == Spacing(x \div TwoPrec)

\* Whether the grid value x is a number of the format.
Representable(x) == Abs(x) % Quantum(Abs(x)) = 0

\* num/den (den > 0) rounded to the nearest number of the format, ties to even.
RoundQ(num, den) ==
  LET a == Abs(num)
      q == Quantum(a \div den)
      k == a \div (den * q)
      r == a - k * den * q
      up == 2 * r > den * q \/ (2 * r = den * q /\ k % 2 = 1)
  IN Sgn(num) * (IF up THEN k + 1 ELSE k) * q

\* a + b, a - b, a * b and x / 2 as the format computes them.
Add(a, b) == RoundQ(a + b, 1)

Sub(a, b) == RoundQ(a - b, 1)

Mul(a, b) == RoundQ(a * b, Scale)

Half(x) == RoundQ(x, 2)

\* a / b: a finite quotient, or IEEE 754's answer for a zero divisor
\* (0/0 is NaN, x/0 is an infinity); no trap, no error.
Div(a, b) ==
  IF b = 0
    THEN IF a = 0 THEN [kind |-> "nan", val |-> 0]
                  ELSE [kind |-> "inf", val |-> Sgn(a)]
    ELSE [kind |-> "finite", val |-> RoundQ(Sgn(b) * a * Scale, Abs(b))]

\* std::exp, std::cos and std::sin on the format: the correctly rounded values
\* of exp(x/Scale), cos(x/Scale), sin(x/Scale), entry 1 standing for the first
\* argument of the table.
ExpTable ==
  << 0, 0, 0, 0, 0, 0, 0, 0, 0, 1, 1, 1, 1, 1, 1, 1,
    1, 1, 1, 1, 1, 1, 1, 1, 1, 1, 1, 2, 2, 2, 2, 2,
    2, 2, 2, 3, 3, 3, 3, 3, 4, 4, 4, 4, 5, 5, 5, 6,
    6, 6, 7, 7, 8, 8, 9, 9, 10, 10, 11, 12, 12, 13, 14, 15,
    16, 17, 18, 19, 21, 22, 23, 25, 26, 28, 30, 32, 34, 36, 38, 40,
    44, 46, 50, 52, 56, 60, 64, 68, 72, 76, 80, 88, 92, 100, 104, 112,
    120, 124, 136, 144, 152, 160, 176, 184, 192, 208, 224, 232, 248, 272, 288, 304,
    320, 336, 368, 384, 416, 432, 464, 496, 544, 576, 608, 640, 672, 736, 768, 832,
    864 >>

CosTable ==
  << 16, 16, 16, 16, 16, 15, 15, 14, 14, 14, 13, 12, 12, 11, 10, 9,
    9, 8, 7, 6, 5, 4, 3, 2, 1, 0, -1, -2, -3, -4, -5, -6,
    -7, -8, -8, -9, -10, -11, -12, -12, -13, -13, -14, -14, -15, -15, -15, -16,
    -16, -16, -16, -16, -16, -16, -16, -15, -15, -15, -14, -14, -13, -13, -12, -11,
    -10, -10, -9, -8, -7, -6, -5, -4, -3, -2, -1, 0, 1, 2, 3, 4,
    5, 5, 6, 7, 8, 9, 10, 11, 11, 12, 13, 13, 14, 14, 15, 15,
    15, 16, 16, 16, 16, 16, 16, 16, 16, 15, 15, 15, 14, 14, 13, 13,
    12, 11, 11, 10, 9, 8, 7, 6, 6, 5, 4, 3, 2, 1, 0, -1,
    -2 >>

SinTable ==
  << 0, 1, 2, 3, 4, 5, 6, 7, 8, 9, 9, 10, 11, 12, 12, 13,
    13, 14, 14, 15, 15, 15, 16, 16, 16, 16, 16, 16, 16, 16, 15, 15,
    15, 14, 14, 13, 12, 12, 11, 10, 10, 9, 8, 7, 6, 5, 4, 3,
    2, 1, 0, -1, -2, -3, -4, -5, -6, -7, -7, -8, -9, -10, -11, -11,
    -12, -13, -13, -14, -14, -15, -15, -15, -16, -16, -16, -16, -16, -16, -16, -16,
    -15, -15, -15, -14, -14, -13, -13, -12, -11, -11, -10, -9, -8, -7, -6, -5,
    -4, -4, -3, -2, -1, 0, 1, 2, 3, 4, 5, 6, 7, 8, 9, 10,
    11, 11, 12, 13, 13, 14, 14, 15, 15, 15, 16, 16, 16, 16, 16, 16,
    16 >>

\* The arguments the tables cover.
ExpLo == -(4 * Scale)

ExpHi == ExpLo + Len(ExpTable) - 1

TrigHi == Len(CosTable) - 1

\* exp(x) rounds to 0 below the table (underflow); above it the result would
\* overflow the model's integers, and ExpInRange keeps the operations away.
ExpInRange(x) == x <= ExpHi

Exp(x) ==
  IF x < ExpLo THEN 0
  ELSE IF x > ExpHi THEN ExpTable[Len(ExpTable)]
  ELSE ExpTable[x - ExpLo + 1]

TrigInRange(x) == Abs(x) <= TrigHi

Cos(x) == IF TrigInRange(x) THEN CosTable[Abs(x) + 1] ELSE 0

Sin(x) == IF TrigInRange(x) THEN Sgn(x) * SinTable[Abs(x) + 1] ELSE 0

\* ------------------------------------------------------------ memory
\* The caller's arrays are functions on 0..cap-1; a pointer is an index into
\* its array.  Every element access is logged as <<array, index>>.  An access
\* outside the array (undefined behaviour) is logged too; it cannot occur in
\* the functions below, so the value it yields is immaterial.
Load(a, i) == IF i \in DOMAIN a THEN a[i] ELSE 0

Store(a, i, v) == IF i \in DOMAIN a THEN [a EXCEPT ![i] = v] ELSE a

\* ------------------------------------------------------------ fms::lmm
\* sigma[i] * sigma[i] * t[i] * t[i] / 2, evaluated left to right.
ConvexityAdj(s, tt) == Half(Mul(Mul(Mul(s, s), tt), tt))

\* to_futures' loop body with the division by 2 left out.
to_futures_body_nohalf(c, i) ==
  [c EXCEPT
     !.f = Store(c.f, c.fp + i,
                 Add(Load(c.f, c.fp + i),
                     Mul(Mul(Mul(Load(c.sigma, c.sp + i), Load(c.sigma, c.sp + i)),
                             Load(c.t, c.tp + i)), Load(c.t, c.tp + i)))),
     !.rd = @ \cup {<<"t", c.tp + i>>, <<"f", c.fp + i>>, <<"sigma", c.sp + i>>},
     !.wr = @ \cup {<<"f", c.fp + i>>}]

\* One pass of to_futures' loop body: f[i] += sigma[i]*sigma[i]*t[i]*t[i]/2.
to_futures_body(c, i) ==
  [c EXCEPT
     !.f = Store(c.f, c.fp + i,
                 Add(Load(c.f, c.fp + i),
                     ConvexityAdj(Load(c.sigma, c.sp + i), Load(c.t, c.tp + i)))),
     !.rd = @ \cup {<<"t", c.tp + i>>, <<"f", c.fp + i>>, <<"sigma", c.sp + i>>},
     !.wr = @ \cup {<<"f", c.fp + i>>}]

RECURSIVE to_futures_loop(_, _, _)
to_futures_loop(i, n, c) ==
  IF i < n THEN to_futures_loop(i + 1, n, to_futures_body(c, i)) ELSE c

to_futures(n, c) == to_futures_loop(0, n, c)

\* to_forwards' loop body adding the adjustment instead of subtracting it.
to_forwards_body_plus(c, i) ==
  [c EXCEPT
     !.f = Store(c.f, c.fp + i,
                 Add(Load(c.f, c.fp + i),
                     ConvexityAdj(Load(c.sigma, c.sp + i), Load(c.t, c.tp + i)))),
     !.rd = @ \cup {<<"t", c.tp + i>>, <<"f", c.fp + i>>, <<"sigma", c.sp + i>>},
     !.wr = @ \cup {<<"f", c.fp + i>>}]

\* One pass of to_forwards' loop body: phi[i] -= sigma[i]*sigma[i]*t[i]*t[i]/2.
to_forwards_body(c, i) ==
  [c EXCEPT
     !.f = Store(c.f, c.fp + i,
                 Sub(Load(c.f, c.fp + i),
                     ConvexityAdj(Load(c.sigma, c.sp + i), Load(c.t, c.tp + i)))),
     !.rd = @ \cup {<<"t", c.tp + i>>, <<"f", c.fp + i>>, <<"sigma", c.sp + i>>},
     !.wr = @ \cup {<<"f", c.fp + i>>}]

RECURSIVE to_forwards_loop(_, _, _)
to_forwards_loop(i, n, c) ==
  IF i < n THEN to_forwards_loop(i + 1, n, to_forwards_body(c, i)) ELSE c

to_forwards(n, c) == to_forwards_loop(0, n, c)

\* N(dre): the next sample of the process-wide engine.  c.stream holds the
\* values the engine yields next, c.taken how many of them have been taken.
NormalDraw(c) ==
  [val |-> c.stream[c.taken + 1], c |-> [c EXCEPT !.taken = @ + 1]]

\* The window loop with *t < u: a knot equal to u survives.
RECURSIVE window_strict(_, _, _)
window_strict(u, n, c) ==
  IF n > 0
    THEN LET c1 == [c EXCEPT !.rd = @ \cup {<<"t", c.tp>>}]
         IN IF Load(c.t, c.tp) < u
              THEN window_strict(u, n - 1,
                                 [c1 EXCEPT !.tp = @ + 1, !.fp = @ + 1, !.sp = @ + 1])
              ELSE [n |-> n, c |-> c1]
    ELSE [n |-> n, c |-> c]

\* while (n > 0 and *t <= u) { --n; ++t; ++phi; ++sigma; }
\* `and` short-circuits: *t is read only when n > 0.
RECURSIVE window(_, _, _)
window(u, n, c) ==
  IF n > 0
    THEN LET c1 == [c EXCEPT !.rd = @ \cup {<<"t", c.tp>>}]
         IN IF Load(c.t, c.tp) <= u
              THEN window(u, n - 1,
                          [c1 EXCEPT !.tp = @ + 1, !.fp = @ + 1, !.sp = @ + 1])
              ELSE [n |-> n, c |-> c1]
    ELSE [n |-> n, c |-> c]

\* B0 * cos(alpha * t[i]) + B1 * sin(alpha * t[i])
BrownianAt(B0, B1, alpha, ti) ==
  Add(Mul(B0, Cos(Mul(alpha, ti))), Mul(B1, Sin(Mul(alpha, ti))))

\* The factor with sigma left out of the diffusion term.
GrowthFactor_nosigma(s, Bu, u) == Exp(Sub(Bu, Half(Mul(Mul(s, s), u))))

\* exp(sigma[i] * Bu - sigma[i] * sigma[i] * u / 2)
GrowthFactor(s, Bu, u) == Exp(Sub(Mul(s, Bu), Half(Mul(Mul(s, s), u))))

\* The evolve loop's body with phi[i] = exp(...) for phi[i] *= exp(...).
evolve_body_assign(u, c, alpha, B0, B1, i) ==
  LET ti == Sub(Load(c.t, c.tp + i), u)
      Bu == BrownianAt(B0, B1, alpha, ti)
  IN [c EXCEPT
        !.t = Store(c.t, c.tp + i, ti),
        !.f = Store(c.f, c.fp + i, GrowthFactor(Load(c.sigma, c.sp + i), Bu, u)),
        !.rd = @ \cup {<<"t", c.tp + i>>, <<"sigma", c.sp + i>>},
        !.wr = @ \cup {<<"t", c.tp + i>>, <<"f", c.fp + i>>}]

\* One pass of the evolve loop: t[i] -= u; Bu = ...; phi[i] *= exp(...).
evolve_body(u, c, alpha, B0, B1, i) ==
  LET ti == Sub(Load(c.t, c.tp + i), u)
      Bu == BrownianAt(B0, B1, alpha, ti)
  IN [c EXCEPT
        !.t = Store(c.t, c.tp + i, ti),
        !.f = Store(c.f, c.fp + i,
                    Mul(Load(c.f, c.fp + i),
                        GrowthFactor(Load(c.sigma, c.sp + i), Bu, u))),
        !.rd = @ \cup {<<"t", c.tp + i>>, <<"f", c.fp + i>>, <<"sigma", c.sp + i>>},
        !.wr = @ \cup {<<"t", c.tp + i>>, <<"f", c.fp + i>>}]

RECURSIVE evolve_loop(_, _, _, _, _, _, _)
evolve_loop(i, n, u, c, alpha, B0, B1) ==
  IF i < n
    THEN evolve_loop(i + 1, n, u, evolve_body(u, c, alpha, B0, B1, i), alpha, B0, B1)
    ELSE c

\* advance_futures taking one sample and using it for B0 and B1.
advance_futures_onedraw(u, n, c, alpha) ==
  LET d0 == NormalDraw(c)
      w == window(u, n, d0.c)
  IN [n |-> w.n, c |-> evolve_loop(0, w.n, u, w.c, alpha, d0.val, d0.val)]

\* advance_futures evolving n buckets from the moved pointers, n not decremented.
advance_futures_fulln(u, n, c, alpha) ==
  LET d0 == NormalDraw(c)
      d1 == NormalDraw(d0.c)
      w == window(u, n, d1.c)
  IN [n |-> w.n, c |-> evolve_loop(0, n, u, w.c, alpha, d0.val, d1.val)]

\* advance_futures(u, n, t, phi, sigma, alpha): the count it returns and the
\* curve (arrays, the three pointers it was handed by reference, the engine)
\* it leaves.
advance_futures(u, n, c, alpha) ==
  LET d0 == NormalDraw(c)
      d1 == NormalDraw(d0.c)
      B0 == d0.val
      B1 == d1.val
      w == window(u, n, d1.c)
  IN [n |-> w.n, c |-> evolve_loop(0, w.n, u, w.c, alpha, B0, B1)]

\* advance without the conversion to futures.
advance_noconvert(u, n, c, alpha) ==
  LET r == advance_futures(u, n, c, alpha)
  IN [n |-> r.n, c |-> to_forwards(r.n, r.c)]

\* advance(u, n, t, f, sigma, alpha)
advance(u, n, c, alpha) ==
  LET c1 == to_futures(n, c)
      r == advance_futures(u, n, c1, alpha)
  IN [n |-> r.n, c |-> to_forwards(r.n, r.c)]

\* par_coupon's loop body with D = Dn * dt for D += Dn * dt.
par_coupon_body_assign(c, p, j) ==
  LET dt == Sub(Load(c.t, c.tp + j), p.t0)
      x == Mul(-Load(c.f, c.fp + j), dt)
      Dn == Mul(p.Dn, Exp(x))
  IN [Dn |-> Dn,
      D |-> Mul(Dn, dt),
      t0 |-> Load(c.t, c.tp + j),
      terms |-> Append(p.terms, Mul(Dn, dt)),
      inrange |-> p.inrange /\ ExpInRange(x),
      rd |-> p.rd \cup {<<"t", c.tp + j>>, <<"f", c.fp + j>>}]

\* One pass of par_coupon's loop body; p holds the locals Dn, D, t0.
par_coupon_body(c, p, j) ==
  LET dt == Sub(Load(c.t, c.tp + j), p.t0)
      x == Mul(-Load(c.f, c.fp + j), dt)
      Dn == Mul(p.Dn, Exp(x))
  IN [Dn |-> Dn,
      D |-> Add(p.D, Mul(Dn, dt)),
      t0 |-> Load(c.t, c.tp + j),
      terms |-> Append(p.terms, Mul(Dn, dt)),
      inrange |-> p.inrange /\ ExpInRange(x),
      rd |-> p.rd \cup {<<"t", c.tp + j>>, <<"f", c.fp + j>>}]

RECURSIVE par_coupon_loop(_, _, _, _)
par_coupon_loop(j, n, c, p) ==
  IF j < n THEN par_coupon_loop(j + 1, n, c, par_coupon_body(c, p, j)) ELSE p

\* par_coupon(n, t, f): the value returned, with the locals at the return
\* (Dn, the annuity D) and every term Dn * dt added to D.
par_coupon(n, c) ==
  LET D0 == One
      p == par_coupon_loop(0, n, c,
             [Dn |-> One, D |-> 0, t0 |-> 0, terms |-> <<>>,
              inrange |-> TRUE, rd |-> {}])
  IN [ret |-> Div(Sub(D0, p.Dn), p.D), Dn |-> p.Dn, D |-> p.D,
      terms |-> p.terms, inrange |-> p.inrange, rd |-> p.rd]

\* ------------------------------------------------------------ state
VARIABLES
  t,      \* the caller's array of knot times
  f,      \* the caller's array of rates (forwards or futures)
  sigma,  \* the caller's array of volatilities
  tp,     \* the caller's pointer T* t, as an index into t
  fp,     \* the caller's pointer F* f / phi, as an index into f
  sp,     \* the caller's pointer S* sigma, as an index into sigma
  n,      \* the caller's count of buckets in the view
  draws,  \* samples taken from dre so far
  calls,  \* calls of advance_futures so far (advance's included)
  ops,    \* operations applied so far
  last    \* the last operation: its arguments, result, accesses and pre-state

vars == <<t, f, sigma, tp, fp, sp, n, draws, calls, ops, last>>

\* The inputs, all numbers of the format: knot times 1.0 .. MaxN.0, target
\* times 0, 1.0 (a knot) and MaxN - 0.5 (strictly between knots), flat rates
\* 0.0625 and 2.0, volatilities 0 and 1.0.
TimeSet == {k * Scale : k \in 1..MaxN}

USet == {0, Scale, MaxN * Scale - Scale \div 2}

RateSet == {1, 2 * Scale}

SigmaSet == {0, Scale}

\* alpha with the two samples the engine yields next.
Scenarios == {<<0, <<Scale, -Scale>>>>, <<Scale, <<-Scale, Scale>>>>}

StrictlyIncreasing(a) ==
  \A i \in DOMAIN a : \A j \in DOMAIN a : i < j => a[i] < a[j]

Flat(a) == \A i \in DOMAIN a : \A j \in DOMAIN a : a[i] = a[j]

Snapshot ==
  [t |-> t, f |-> f, sigma |-> sigma, tp |-> tp, fp |-> fp, sp |-> sp, n |-> n]

NoPar ==
  [ret |-> [kind |-> "finite", val |-> 0], Dn |-> 0, D |-> 0, terms |-> <<>>]

\* The curve as the functions take it: arrays, pointers, the engine's next
\* samples, and an empty access log.
Cur(stream) ==
  [t |-> t, f |-> f, sigma |-> sigma, tp |-> tp, fp |-> fp, sp |-> sp,
   stream |-> stream, taken |-> 0, rd |-> {}, wr |-> {}]

\* The record of an operation; prev names the operation before it and the
\* state that one started from.
Record(op, u, alpha, drawn, ret, c, par) ==
  [op |-> op, u |-> u, alpha |-> alpha, drawn |-> drawn, ret |-> ret,
   taken |-> c.taken, rd |-> c.rd, wr |-> c.wr, par |-> par,
   pre |-> Snapshot, prev |-> [op |-> last.op, pre |-> last.pre]]

Init ==
  /\ n \in 0..MaxN
  /\ t \in [0..(n - 1) -> TimeSet]
  /\ StrictlyIncreasing(t)
  /\ f \in [0..(n - 1) -> RateSet]
  /\ Flat(f)
  /\ sigma \in [0..(n - 1) -> SigmaSet]
  /\ tp = 0 /\ fp = 0 /\ sp = 0
  /\ draws = 0 /\ calls = 0 /\ ops = 0
  /\ last = [op |-> "none", u |-> 0, alpha |-> 0, drawn |-> <<>>, ret |-> 0,
             taken |-> 0, rd |-> {}, wr |-> {}, par |-> NoPar,
             pre |-> Snapshot, prev |-> [op |-> "none", pre |-> Snapshot]]

\* The caller's arrays after a call.
Arrays(c) == t' = c.t /\ f' = c.f /\ sigma' = c.sigma

\* to_futures, to_forwards and par_coupon take the pointers and n by value.
ByValue == UNCHANGED <<tp, fp, sp, n>>

\* advance_futures and advance take the pointers by reference (T*& t, ...);
\* the caller takes the returned count as its n.
ByReference(r) == tp' = r.c.tp /\ fp' = r.c.fp /\ sp' = r.c.sp /\ n' = r.n

ToFutures ==
  /\ ops < MaxOps
  /\ LET c == to_futures(n, Cur(<<>>))
     IN /\ Arrays(c) /\ ByValue
        /\ last' = Record("to_futures", 0, 0, <<>>, 0, c, NoPar)
        /\ draws' = draws + c.taken
  /\ ops' = ops + 1
  /\ UNCHANGED calls

ToForwards ==
  /\ ops < MaxOps
  /\ LET c == to_forwards(n, Cur(<<>>))
     IN /\ Arrays(c) /\ ByValue
        /\ last' = Record("to_forwards", 0, 0, <<>>, 0, c, NoPar)
        /\ draws' = draws + c.taken
  /\ ops' = ops + 1
  /\ UNCHANGED calls

AdvanceFutures ==
  /\ ops < MaxOps
  /\ \E u \in USet, s \in Scenarios :
       LET r == advance_futures(u, n, Cur(s[2]), s[1])
       IN /\ Arrays(r.c) /\ ByReference(r)
          /\ last' = Record("advance_futures", u, s[1], s[2], r.n, r.c, NoPar)
          /\ draws' = draws + r.c.taken
  /\ calls' = calls + 1
  /\ ops' = ops + 1

Advance ==
  /\ ops < MaxOps
  /\ \E u \in USet, s \in Scenarios :
       LET r == advance(u, n, Cur(s[2]), s[1])
       IN /\ Arrays(r.c) /\ ByReference(r)
          /\ last' = Record("advance", u, s[1], s[2], r.n, r.c, NoPar)
          /\ draws' = draws + r.c.taken
  /\ calls' = calls + 1
  /\ ops' = ops + 1

\* par_coupon is applied where exp does not overflow (ExpInRange).
ParCoupon ==
  /\ ops < MaxOps
  /\ LET r == par_coupon(n, Cur(<<>>))
     IN /\ r.inrange
        /\ last' = Record("par_coupon", 0, 0, <<>>, 0,
                          [taken |-> 0, rd |-> r.rd, wr |-> {}],
                          [ret |-> r.ret, Dn |-> r.Dn, D |-> r.D,
                           terms |-> r.terms])
  /\ ops' = ops + 1
  /\ UNCHANGED <<t, f, sigma, tp, fp, sp, n, draws, calls>>

Next == ToFutures \/ ToForwards \/ AdvanceFutures \/ Advance \/ ParCoupon

Spec == Init /\ [][Next]_vars

\* ------------------------------------------------------------ claims
\* The call the claims speak of: its pre-state and the buckets it dropped.
Pre == last.pre

Dropped == Pre.n - last.ret

\* Bucket i (0-based, in the view the call was handed) before the call.
T0(i) == Pre.t[Pre.tp + i]

F0(i) == Pre.f[Pre.fp + i]

S0(i) == Pre.sigma[Pre.sp + i]

PreSorted == \A i \in 0..(Pre.n - 1) : \A j \in 0..(Pre.n - 1) : i < j => T0(i) < T0(j)

PreZeroVol == \A i \in 0..(Pre.n - 1) : S0(i) = 0

\* The curve of a snapshot, as the functions take it.
CurOf(s) ==
  [t |-> s.t, f |-> s.f, sigma |-> s.sigma, tp |-> s.tp, fp |-> s.fp,
   sp |-> s.sp, stream |-> <<>>, taken |-> 0, rd |-> {}, wr |-> {}]

\* C1: advance_futures on a strictly increasing grid keeps exactly the buckets
\* whose knot time is > u (a knot equal to u is dropped), in their order; for u
\* strictly between t[k-1] and t[k] it returns n - k; and every survivor's
\* time is its original time minus u.
C1_Windowing ==
  (last.op = "advance_futures" /\ PreSorted) =>
    /\ n = last.ret
    /\ Dropped \in 0..Pre.n
    /\ \A i \in 0..(Pre.n - 1) : (i >= Dropped) <=> (T0(i) > last.u)
    /\ n = Cardinality({i \in 0..(Pre.n - 1) : T0(i) > last.u})
    /\ \A k \in 0..(Pre.n - 1) :
         ((k = 0 \/ T0(k - 1) < last.u) /\ last.u < T0(k)) => n = Pre.n - k
    /\ tp = Pre.tp + Dropped
    /\ \A i \in 0..(n - 1) :
         /\ t[tp + i] = Sub(T0(Dropped + i), last.u)
         /\ sigma[sp + i] = S0(Dropped + i)

\* u = 2.5 strictly between the second and third knot of a 3-bucket curve.
C1_Witness ==
  /\ last.op = "advance_futures"
  /\ Pre.n = 3 /\ n = 1
  /\ T0(1) < last.u /\ last.u < T0(2)
  /\ t[tp] = T0(2) - last.u

\* Twice the logarithm (times Scale^4) of the mean of the factor
\* exp(sigma*Bu - sigma^2*u/2) that advance_futures multiplies a rate by, the
\* mean taken over the two samples.  Bu = B0*cos(x) + B1*sin(x) with B0, B1
\* independent normal of mean 0 and standard deviation NormalStdDev is normal
\* of mean 0 and variance NormalStdDev^2 (cos^2 + sin^2 = 1), and the mean of
\* exp(sigma*Bu) is exp(sigma^2 * variance / 2).
NormalStdDev == Scale

LogMeanGrowth(s, u) ==
  s * s * NormalStdDev * NormalStdDev - s * s * u * Scale

\* C2: the step is a martingale: the mean of every surviving rate after
\* advance_futures(u, ...) over the two samples equals the rate before, that
\* is, the mean of the factor it was multiplied by is 1 (its logarithm is 0).
C2_Martingale ==
  last.op = "advance_futures" =>
    \A i \in 0..(n - 1) : LogMeanGrowth(sigma[sp + i], last.u) = 0

\* The start of a round trip: to_futures, then to_forwards.
RoundTrip == last.op = "to_forwards" /\ last.prev.op = "to_futures"

Start == last.prev.pre

RoundTripFrame ==
  /\ t = Start.t /\ sigma = Start.sigma /\ n = Start.n
  /\ tp = Start.tp /\ fp = Start.fp /\ sp = Start.sp
  /\ DOMAIN f = DOMAIN Start.f

\* The adjustment both calls computed for bucket i of the view.
Adj(i) == ConvexityAdj(Start.sigma[Start.sp + i], Start.t[Start.tp + i])

\* C3 as claimed: to_futures then to_forwards restores every rate exactly and
\* changes neither t, sigma nor n.
C3_RoundTripExact == RoundTrip => (RoundTripFrame /\ f = Start.f)

\* C3 as amended: to_futures then to_forwards changes neither t, sigma nor n,
\* leaves the rates outside the view alone, restores a rate exactly whenever
\* the sum rate + sigma^2*t^2/2 is a number of the format (no rounding), and
\* otherwise to within the rounding errors of the one addition and the one
\* subtraction (half a spacing each).
C3_RoundTrip ==
  RoundTrip =>
    /\ RoundTripFrame
    /\ \A j \in DOMAIN f : (j < fp \/ j >= fp + n) => f[j] = Start.f[j]
    /\ \A i \in 0..(n - 1) :
         LET f0 == Start.f[Start.fp + i]
             s == Add(f0, Adj(i))
         IN /\ Representable(f0 + Adj(i)) => f[fp + i] = f0
            /\ 2 * Abs(f[fp + i] - f0)
                 <= Quantum(Abs(f0 + Adj(i))) + Quantum(Abs(s - Adj(i)))

\* A round trip over a bucket with a non-zero adjustment that is restored.
C3_Witness ==
  /\ RoundTrip /\ n >= 2
  /\ \E i \in 0..(n - 1) : Adj(i) # 0 /\ f[fp + i] = Start.f[Start.fp + i]

\* C4: with every sigma 0, advance_futures leaves the rate of every surviving
\* bucket as it was, whatever u, alpha and the two samples are.
C4_ZeroVolatility ==
  (last.op = "advance_futures" /\ PreZeroVol) =>
    \A i \in 0..(n - 1) : f[fp + i] = F0(Dropped + i)

C4_Witness ==
  /\ last.op = "advance_futures" /\ PreZeroVol
  /\ Pre.n = 3 /\ n = 2 /\ last.alpha # 0 /\ last.u > 0
  /\ f[fp] = F0(1)

\* C5: advance is to_futures on all n buckets with the absolute grid, then
\* advance_futures, then to_forwards on the survivors with the rebased grid:
\* it returns advance_futures' count, and a surviving rate ends as
\* (f + sigma^2*t^2/2) * exp(sigma*Bu - sigma^2*u/2) - sigma^2*(t-u)^2/2.
C5_AdvanceComposition ==
  (last.op = "advance" /\ PreSorted) =>
    /\ n = last.ret
    /\ n = Cardinality({i \in 0..(Pre.n - 1) : T0(i) > last.u})
    /\ tp = Pre.tp + Dropped /\ fp = Pre.fp + Dropped /\ sp = Pre.sp + Dropped
    /\ \A i \in 0..(n - 1) :
         LET k == Dropped + i
             tu == Sub(T0(k), last.u)
             Bu == Add(Mul(last.drawn[1], Cos(Mul(last.alpha, tu))),
                       Mul(last.drawn[2], Sin(Mul(last.alpha, tu))))
             drift == Half(Mul(Mul(S0(k), S0(k)), last.u))
             phi == Add(F0(k), Half(Mul(Mul(Mul(S0(k), S0(k)), T0(k)), T0(k))))
         IN /\ t[tp + i] = tu
            /\ f[fp + i] =
                 Sub(Mul(phi, Exp(Sub(Mul(S0(k), Bu), drift))),
                     Half(Mul(Mul(Mul(S0(k), S0(k)), tu), tu)))

C5_Witness ==
  /\ last.op = "advance"
  /\ Pre.n = 3 /\ n = 2 /\ last.alpha # 0
  /\ \A i \in 0..(n - 1) : sigma[sp + i] # 0
  /\ f[fp] # F0(1)

\* C6: for n >= 1, knot times > 0 and every sigma 0, advance(0, ...) returns
\* n and leaves the view, every t and every rate as they were, so par_coupon
\* of the advanced curve is par_coupon of the original one.
C6_Case ==
  /\ last.op = "advance" /\ last.u = 0
  /\ Pre.n >= 1 /\ PreZeroVol
  /\ \A i \in 0..(Pre.n - 1) : T0(i) > 0

C6_ZeroVolConservation ==
  C6_Case =>
    /\ last.ret = Pre.n /\ n = Pre.n
    /\ tp = Pre.tp /\ fp = Pre.fp /\ sp = Pre.sp
    /\ t = Pre.t /\ f = Pre.f /\ sigma = Pre.sigma
    /\ par_coupon(n, Cur(<<>>)).ret = par_coupon(Pre.n, CurOf(Pre)).ret

C6_Witness ==
  /\ C6_Case /\ Pre.n = 3 /\ last.alpha # 0
  /\ par_coupon(n, Cur(<<>>)).ret.kind = "finite"

\* C7: every call of advance_futures (advance's included) takes exactly two
\* samples, B0 then B1, whatever n is and however many buckets are dropped;
\* the one pair serves every surviving bucket; after k calls the engine has
\* been sampled 2k times.
C7_TwoDrawsPerCall ==
  /\ draws = 2 * calls
  /\ last.op \in {"advance_futures", "advance"} => last.taken = 2
  /\ last.op \in {"to_futures", "to_forwards", "par_coupon"} => last.taken = 0
  /\ last.op = "advance_futures" =>
       \A i \in 0..(n - 1) :
         f[fp + i] =
           Mul(F0(Dropped + i),
               Exp(Sub(Mul(sigma[sp + i],
                           Add(Mul(last.drawn[1], Cos(Mul(last.alpha, t[tp + i]))),
                               Mul(last.drawn[2], Sin(Mul(last.alpha, t[tp + i]))))),
                       Half(Mul(Mul(sigma[sp + i], sigma[sp + i]), last.u)))))

\* The second call, on a curve the first call emptied.
C7_Witness ==
  /\ calls = 2 /\ draws = 4
  /\ last.op = "advance_futures" /\ Pre.n = 0 /\ DOMAIN t # {}

\* The indices of array a that the call's view covered when it started.
ViewOf(a) ==
  IF a = "t" THEN Pre.tp..(Pre.tp + Pre.n - 1)
  ELSE IF a = "f" THEN Pre.fp..(Pre.fp + Pre.n - 1)
  ELSE Pre.sp..(Pre.sp + Pre.n - 1)

\* C8: advance_futures moves the three pointers forward by the same d =
\* n - (returned count), 0 <= d <= n, over the caller's arrays, which keep
\* their size; every element it reads or writes lies in the view it was
\* handed, also when all n buckets are matured; it never writes sigma, and it
\* writes neither t nor the rate of a dropped bucket.
C8_ViewDiscipline ==
  last.op = "advance_futures" =>
    /\ Dropped \in 0..Pre.n
    /\ tp = Pre.tp + Dropped /\ fp = Pre.fp + Dropped /\ sp = Pre.sp + Dropped
    /\ DOMAIN t = DOMAIN Pre.t /\ DOMAIN f = DOMAIN Pre.f
    /\ DOMAIN sigma = DOMAIN Pre.sigma
    /\ \A a \in last.rd \cup last.wr : a[2] \in ViewOf(a[1])
    /\ \A a \in last.wr : a[1] # "sigma" /\ a[2] >= Pre.tp + Dropped
    /\ sigma = Pre.sigma
    /\ \A j \in DOMAIN t : j < tp => t[j] = Pre.t[j]
    /\ \A j \in DOMAIN f : j < fp => f[j] = Pre.f[j]

\* Both buckets of a 2-bucket curve matured: the pointers sit one past the end.
C8_Witness ==
  /\ last.op = "advance_futures"
  /\ Pre.n = 2 /\ last.ret = 0 /\ Pre.tp = 0
  /\ tp = 2 /\ fp = 2 /\ sp = 2
  /\ last.rd = {<<"t", 0>>, <<"t", 1>>}

\* C9 as claimed: par_coupon on an empty curve makes no bucket step and
\* evaluates (1 - 1) / 0 with no guard; for n >= 1 on a strictly increasing
\* positive grid the annuity is strictly positive; t and the rates are not
\* modified.
C9_ParCouponAnnuity ==
  last.op = "par_coupon" =>
    /\ Pre.n = 0 =>
         /\ last.par.terms = <<>> /\ last.par.D = 0 /\ last.par.Dn = One
         /\ last.par.ret.kind = "nan"
    /\ (Pre.n >= 1 /\ PreSorted /\ T0(0) > 0) => last.par.D > 0
    /\ t = Pre.t /\ f = Pre.f /\ last.wr = {}

\* C9 as amended: the same, but for n >= 1 the annuity is strictly positive
\* exactly when one of its terms Dn * dt is not zero (always so in exact
\* arithmetic); when exp or a product underflows to 0 in every term the
\* annuity is 0 and the quotient is again not finite, with no guard.
C9_ParCoupon ==
  last.op = "par_coupon" =>
    /\ Pre.n = 0 =>
         /\ last.par.terms = <<>> /\ last.par.D = 0 /\ last.par.Dn = One
         /\ last.par.ret.kind = "nan"
    /\ Len(last.par.terms) = Pre.n
    /\ (Pre.n >= 1 /\ PreSorted /\ T0(0) > 0) =>
         /\ \A j \in 1..Pre.n : last.par.terms[j] >= 0
         /\ last.par.D > 0 <=> \E j \in 1..Pre.n : last.par.terms[j] > 0
         /\ last.par.D = 0 => last.par.ret.kind # "finite"
         /\ last.par.D > 0 => last.par.ret.kind = "finite"
    /\ t = Pre.t /\ f = Pre.f /\ last.wr = {}
    /\ \A a \in last.rd : a[1] # "sigma" /\ a[2] \in ViewOf(a[1])

\* The empty curve: 0/0.
C9_Witness ==
  /\ last.op = "par_coupon" /\ Pre.n = 0
  /\ last.par.ret = [kind |-> "nan", val |-> 0]

\* The adjustment to_futures added to bucket i of the view advance was handed.
Adj0(i) == Half(Mul(Mul(Mul(S0(i), S0(i)), T0(i)), T0(i)))

\* C10 as claimed: after advance the rate slot of every dropped bucket holds
\* the futures value f + sigma^2*t^2/2 that to_futures wrote, not the forward
\* f: the array is in mixed representation whenever a dropped bucket has
\* sigma # 0 and t # 0.
C10_DroppedMixed ==
  last.op = "advance" =>
    \A i \in 0..(Dropped - 1) :
      /\ f[Pre.fp + i] = Add(F0(i), Adj0(i))
      /\ (S0(i) # 0 /\ T0(i) # 0) => f[Pre.fp + i] # F0(i)

\* C10 as amended: the slot of every dropped bucket holds the futures value
\* to_futures computed (the sum as rounded), and its knot time is untouched;
\* it differs from the forward f only if sigma # 0 and t # 0, and it does
\* differ whenever the adjustment is not 0 and the sum is exact; an adjustment
\* lost to rounding leaves the slot equal to f.
C10_DroppedLeftAsFutures ==
  last.op = "advance" =>
    \A i \in 0..(Dropped - 1) :
      /\ f[Pre.fp + i] = Add(F0(i), Adj0(i))
      /\ t[Pre.tp + i] = T0(i)
      /\ f[Pre.fp + i] # F0(i) => (S0(i) # 0 /\ T0(i) # 0)
      /\ (Adj0(i) # 0 /\ Representable(F0(i) + Adj0(i))) => f[Pre.fp + i] # F0(i)

\* A dropped bucket with a non-zero adjustment left at its futures value,
\* beside a survivor.
C10_Witness ==
  /\ last.op = "advance" /\ Dropped >= 1 /\ n >= 1
  /\ S0(0) # 0 /\ Adj0(0) # 0
  /\ f[Pre.fp] = F0(0) + Adj0(0) /\ f[Pre.fp] # F0(0)

====
